---- MODULE Spec2Model ----
(***************************************************************************)
(* Face identity matching engine of face-recognition-auth:                 *)
(*   services/face_recognition_service.py  (embedding cache, matcher)      *)
(*   services/face_service.py              (registration, resolution)      *)
(*   repositories/face_image_repository.py (durable rows)                  *)
(*   routes/face.py                        (register / update / delete /   *)
(*                                          recognize handlers)            *)
(* Distances and confidences are in tenths (0.6 is 6, 1.0 is 10).          *)
(* File names "<int(time.time())>_<pid>.jpg" of one process are            *)
(* identified with their time stamp.                                       *)
(***************************************************************************)
EXTENDS Integers, Sequences, FiniteSets, TLC

VARIABLES now, ticks, files, face_cache, last_cache_update, rows, next_id,
          req, resp, self_tolerance, lock, thr, snapshot

vars == <<now, ticks, files, face_cache, last_cache_update, rows, next_id,
          req, resp, self_tolerance, lock, thr, snapshot>>

\* the part of the state only the thread-level specifications change
svc == <<self_tolerance, lock, thr, snapshot>>

(* ------------------------------ bounds -------------------------------- *)
\* number of clock advances explored
MaxTicks == 1
\* number of image files the faces directory may hold
MaxFiles == 3
\* length of an embedding vector (128 with dlib; any length above 1 behaves
\* alike in the code modelled here)
EncodingDim == 2
\* wall-clock time at which the service is constructed
StartTime == 1000
\* first coordinates of the embeddings explored, in tenths
Coords == {0, 6, 7}
\* first coordinates of the faces submitted for enrolment
BatchCoords == {7}
\* the accounts; account 1 is enrolled when the service starts
Users == {1, 2}

(* ------------------------- program constants -------------------------- *)
\* if len(images) < 3 / if successful_images < 3
MIN_IMAGES == 3
\* Config.MAX_IMAGES_PER_USER
MAX_IMAGES_PER_USER == 5
\* Config.FACE_RECOGNITION_TOLERANCE (0.6)
FACE_RECOGNITION_TOLERANCE == 6
\* self._cache_ttl = 300
cache_ttl == 300
\* the 1 of "confidence = 1 - distance"
One == 10
\* Config.FACES_DIR and the literal directory of FaceService.register_face
FACES_DIR == "./faces"
RowDir == "faces"

\* the None a service returns in place of a file name
None == 0 - 1

(* ----------------------------- embeddings ------------------------------ *)
Vec(x) == [i \in 1..EncodingDim |-> IF i = 1 THEN x ELSE 0]

Embeddings == {Vec(x) : x \in Coords}

RECURSIVE SumSq(_, _, _)
SumSq(a, b, k) ==
    IF k = 0 THEN 0
    ELSE (a[k] - b[k]) * (a[k] - b[k]) + SumSq(a, b, k - 1)

Isqrt(n) == CHOOSE r \in 0..n : r * r <= n /\ (r + 1) * (r + 1) > n

\* the ValueError numpy raises on operands of different shapes
DimensionMismatch == 0 - 1

\* fr.face_distance([known], probe)[0]: the Euclidean norm of the difference
face_distance(known, probe) ==
    IF Len(known) # Len(probe) THEN DimensionMismatch
    ELSE Isqrt(SumSq(known, probe, Len(known)))

\* compare_faces with a strict comparison
compare_faces_Strict(known, probe, tolerance) ==
    /\ face_distance(known, probe) # DimensionMismatch
    /\ face_distance(known, probe) < tolerance

\* fr.compare_faces([known], probe, tolerance)[0]; the exception of a shape
\* mismatch is caught at line 200 and the candidate skipped
compare_faces(known, probe, tolerance) ==
    /\ face_distance(known, probe) # DimensionMismatch
    /\ face_distance(known, probe) <= tolerance

\* bool(ndarray): the element of a one-element array, False for an empty
\* one, ValueError ("truth value of an array with more than one element is
\* ambiguous") otherwise
ArrayTruth(a) ==
    IF Len(a) = 0 THEN "False"
    ELSE IF Len(a) = 1 THEN (IF a[1] # 0 THEN "True" ELSE "False")
    ELSE "ValueError"

(* ------------------------------- images -------------------------------- *)
\* An image: b64 (validate_base64_image accepts the text), fmt
\* (validate_image accepts the bytes and cv2 decodes them), faces (number of
\* faces the detector finds), enc (the encoding of the first face).
Image(b, f, n, x) == [b64 |-> b, fmt |-> f, faces |-> n, enc |-> Vec(x)]

OneFace(x) == Image(TRUE, TRUE, 1, x)

Unusable ==
    {Image(FALSE, FALSE, 0, 0), Image(TRUE, FALSE, 0, 0),
     Image(TRUE, TRUE, 0, 0), Image(TRUE, TRUE, 2, 0)}

\* the images submitted for recognition
Images == Unusable \cup {OneFace(x) : x \in Coords}

\* the images submitted for enrolment
BatchImages == Unusable \cup {OneFace(x) : x \in BatchCoords}

(* --------------------------- the file system --------------------------- *)
\* os.path.join(self.faces_dir, filename)
CachePath(filename) == <<FACES_DIR, filename>>

\* f"faces/{filename}"
RowPath(filename) == <<RowDir, filename>>

\* the directory a relative path names: "./faces" and "faces" are the same
\* directory of the working directory
NormDir(d) == IF d = "./faces" THEN "faces" ELSE d

\* os.path.exists(path) for a path into the faces directory
PathExists(path, fs) ==
    NormDir(path[1]) = NormDir(FACES_DIR) /\ path[2] \in DOMAIN fs

\* a removal that leaves the file in place
RemoveFile_Keep(path, fs) == fs

\* os.remove(path)
RemoveFile(path, fs) ==
    IF PathExists(path, fs)
    THEN [fn \in DOMAIN fs \ {path[2]} |-> fs[fn]]
    ELSE fs

\* cv2.imwrite(file_path, image)
WriteFile(filename, img, fs) ==
    [fn \in DOMAIN fs \cup {filename} |-> IF fn = filename THEN img ELSE fs[fn]]

\* the orders in which os.listdir may enumerate a set of names
RECURSIVE Perms(_)
Perms(S) ==
    IF S = {} THEN {<<>>}
    ELSE UNION {{<<x>> \o p : p \in Perms(S \ {x})} : x \in S}

(* ------------------- FaceRecognitionService: the cache ----------------- *)
CacheEntry(filename, encoding) ==
    [filename |-> filename, encoding |-> encoding,
     file_path |-> CachePath(filename)]

\* self._face_cache[filename] = {...}: a dict keeps the position of a key it
\* already holds and appends a new one
DictSet(cache, entry) ==
    IF \E i \in 1..Len(cache) : cache[i].filename = entry.filename
    THEN [i \in 1..Len(cache) |->
            IF cache[i].filename = entry.filename THEN entry ELSE cache[i]]
    ELSE Append(cache, entry)

\* the body of the listing loop: a readable file with at least one face
\* yields an entry holding encodings[0]
Cacheable(img) == img.fmt /\ img.faces >= 1

BuildCache(order, fs) ==
    LET sel == SelectSeq(order, LAMBDA fn : Cacheable(fs[fn]))
    IN  [i \in 1..Len(sel) |-> CacheEntry(sel[i], fs[sel[i]].enc)]

\* a TTL test that still calls the cache fresh when exactly the TTL has passed
Fresh_Inclusive(t, last) == t - last <= cache_ttl

\* current_time - self._last_cache_update < self._cache_ttl
Fresh(t, last) == t - last < cache_ttl

\* _update_face_cache: the possible (cache, last update) after the call
update_face_cache(t, last, cache, fs) ==
    IF Fresh(t, last)
    THEN {[cache |-> cache, last |-> last]}
    ELSE {[cache |-> BuildCache(order, fs), last |-> t] :
            order \in Perms(DOMAIN fs)}

\* validate_image and cv2.imdecode
validate_image(img) == img.fmt

\* the condition under which detect_faces stores the image
ExactlyOneFace(img) == validate_image(img) /\ img.faces = 1

\* detect_faces; the file name is the second of the call
detect_faces(img, t, cache, fs) ==
    IF ExactlyOneFace(img)
    THEN [filename |-> t,
          files |-> WriteFile(t, img, fs),
          cache |-> DictSet(cache, CacheEntry(t, img.enc))]
    ELSE [filename |-> None, files |-> fs, cache |-> cache]

\* get_face_encoding returns face_encodings[0] when the image is valid and
\* a face is found, None otherwise
HasEncoding(img) == validate_image(img) /\ img.faces >= 1

\* "encoding is None" in the place of "not encoding"
NotEncoding_IsNone(img) == IF ~HasEncoding(img) THEN "True" ELSE "False"

\* "not encoding" of FaceService.register_face: True for None, otherwise the
\* negated truth value of the array
NotEncoding(img) ==
    IF ~HasEncoding(img) THEN "True"
    ELSE IF ArrayTruth(img.enc) = "ValueError" THEN "ValueError"
    ELSE IF ArrayTruth(img.enc) = "True" THEN "False" ELSE "True"

\* the positions of the cache whose entry compare_faces accepts
MatchingPositions(cache, probe) ==
    {i \in 1..Len(cache) :
        compare_faces(cache[i].encoding, probe, self_tolerance)}

\* the position the scan of lines 182-202 returns from: the first accepted
\* entry in iteration order
ScanPosition(cache, probe) ==
    CHOOSE i \in MatchingPositions(cache, probe) :
        \A j \in MatchingPositions(cache, probe) : i <= j

NoMatch == [filename |-> None, file_path |-> <<>>, confidence |-> 0]

\* the comparison loop of FaceRecognitionService.recognize_face
scan_cache(cache, probe) ==
    IF MatchingPositions(cache, probe) = {} THEN NoMatch
    ELSE LET e == cache[ScanPosition(cache, probe)]
         IN  [filename |-> e.filename, file_path |-> e.file_path,
              confidence |-> One - face_distance(e.encoding, probe)]

\* FaceRecognitionService.recognize_face without its cache update
recognize_face(img, cache) ==
    IF HasEncoding(img) THEN scan_cache(cache, img.enc) ELSE NoMatch

(* ------------------------ FaceImageRepository -------------------------- *)
\* FaceImage(user_id, file_path, encoding_data): is_primary takes its column
\* default, False
FaceImage(id, user_id, file_path) ==
    [id |-> id, user_id |-> user_id, file_path |-> file_path,
     is_primary |-> FALSE]

\* a query that finds no row
find_by_user_id_Empty(user_id, rs) == {}

find_by_user_id(user_id, rs) == {r \in rs : r.user_id = user_id}

find_by_id(image_id, rs) == {r \in rs : r.id = image_id}

find_by_file_path(file_path, rs) == {r \in rs : r.file_path = file_path}

(* ----------------------------- FaceService ----------------------------- *)
\* FaceService.register_face for one image: detect_faces stores the file and
\* the cache entry first; the row is created only when "not encoding" is
\* False, and any exception ends the call with success False.  commit_ok is
\* the outcome of db.session.commit() in FaceImageRepository.create.
register_face(user_id, img, t, cache, fs, rs, nid, commit_ok) ==
    LET d == detect_faces(img, t, cache, fs)
        base == [success |-> FALSE, error |-> "", files |-> d.files,
                 cache |-> d.cache, rows |-> rs, next_id |-> nid,
                 upserted |-> d.filename # None,
                 created |-> {}]
    IN  IF d.filename = None
        THEN [base EXCEPT !.error = "No face detected or multiple faces found"]
        ELSE IF NotEncoding(img) = "ValueError"
        THEN [base EXCEPT !.error = "Face registration failed"]
        ELSE IF NotEncoding(img) = "True"
        THEN [base EXCEPT !.error = "Could not encode face"]
        ELSE IF ~commit_ok
        THEN [base EXCEPT !.error = "Face registration failed"]
        ELSE [base EXCEPT
                !.success = TRUE,
                !.rows = rs \cup {FaceImage(nid, user_id, RowPath(d.filename))},
                !.next_id = nid + 1,
                !.created = {nid}]

\* the outcomes of db.session.commit() a call may meet: it is reached only
\* when a row is about to be created
CommitOutcomes(img) ==
    IF ExactlyOneFace(img) /\ NotEncoding(img) = "False"
    THEN BOOLEAN ELSE {TRUE}

\* a deletion that does not verify the owner
delete_face_image_NoOwnerCheck(image_id, user_id, fs, rs) ==
    IF find_by_id(image_id, rs) = {}
    THEN [success |-> FALSE, error |-> "Face image not found",
          files |-> fs, rows |-> rs]
    ELSE LET face == CHOOSE r \in find_by_id(image_id, rs) : TRUE
         IN  [success |-> TRUE, error |-> "",
              files |-> RemoveFile(face.file_path, fs),
              rows |-> rs \ {face}]

\* FaceService.delete_face_image
delete_face_image(image_id, user_id, fs, rs) ==
    IF find_by_id(image_id, rs) = {}
    THEN [success |-> FALSE, error |-> "Face image not found",
          files |-> fs, rows |-> rs]
    ELSE LET face == CHOOSE r \in find_by_id(image_id, rs) : TRUE
         IN  IF face.user_id # user_id
             THEN [success |-> FALSE, error |-> "Access denied",
                   files |-> fs, rows |-> rs]
             ELSE [success |-> TRUE, error |-> "",
                   files |-> RemoveFile(face.file_path, fs),
                   rows |-> rs \ {face}]

\* the loop of update_face_images over the faces get_user_faces listed
RECURSIVE delete_all(_, _, _, _)
delete_all(ids, user_id, fs, rs) ==
    IF ids = {} THEN [files |-> fs, rows |-> rs]
    ELSE LET id == CHOOSE x \in ids : \A y \in ids : x <= y
             d == delete_face_image(id, user_id, fs, rs)
         IN  delete_all(ids \ {id}, user_id, d.files, d.rows)

(* ------------------------------- state --------------------------------- *)
\* now                 time.time(), in seconds
\* ticks               number of clock advances so far
\* files               the faces directory: file name -> stored image
\* face_cache          self._face_cache, in dict iteration order
\* last_cache_update   self._last_cache_update
\* rows                the face_images table
\* next_id             the next autoincrement id of face_images
\* req                 the register/update request in flight: the number of
\*                     images its loop has still to visit (left), its
\*                     counter of successes, and a record of what the batch
\*                     has met and done so far (upserted: it wrote a cache
\*                     entry; created: the ids of the rows it created;
\*                     unusable: one of its images was not a valid image
\*                     of exactly one face; before: the rows the user held
\*                     when an update began)
\* Requests are served one at a time; a batch takes one step per image, and
\* the clock may advance between its images.
\* resp                the response the latest step produced, until it is
\*                     handed to the client (NoResp when none is pending)
\* self_tolerance      self.tolerance, fixed at construction
\* lock                the thread that holds self._cache_lock, 0 when free
\* thr                 the position and the locals of each thread inside the
\*                     service, where its calls are followed statement by
\*                     statement
\* snapshot            the content the cache had at the last instant it was
\*                     whole: at construction, after a completed rebuild, or
\*                     after an upsert into a whole cache

Idle ==
    [pc |-> "idle", op |-> "", user |-> 0, left |-> 0,
     successful_images |-> 0, upserted |-> FALSE, created |-> {},
     unusable |-> FALSE, before |-> {}]

Resp(op, user, status, error) ==
    [op |-> op, user |-> user, status |-> status, error |-> error,
     count |-> 0, upserted |-> FALSE, created |-> {}, unusable |-> FALSE,
     owner |-> 0, match |-> None, confidence |-> 0, probe |-> <<>>,
     before |-> {}]

NoResp == Resp("", 0, 0, "")

\* what account 1 holds when the service starts: two stored images and
\* their rows, the first of them primary
InitFiles ==
    (StartTime - 2 :> OneFace(6)) @@ (StartTime - 1 :> OneFace(0))

InitRows ==
    {[id |-> k, user_id |-> 1, file_path |-> RowPath(StartTime - 3 + k),
      is_primary |-> (k = 1)] : k \in 1..2}

\* FaceRecognitionService.__init__: empty cache, last update 0, then
\* _update_face_cache()
Init ==
    /\ now = StartTime
    /\ ticks = 0
    /\ files = InitFiles
    /\ \E c \in update_face_cache(StartTime, 0, <<>>, InitFiles) :
          /\ face_cache = c.cache
          /\ last_cache_update = c.last
    /\ rows = InitRows
    /\ next_id = 3
    /\ req = Idle
    /\ resp = NoResp
    /\ self_tolerance = FACE_RECOGNITION_TOLERANCE
    /\ lock = 0
    /\ thr = <<>>
    /\ snapshot = <<>>

(* ------------------------------ actions -------------------------------- *)
\* the clock advances by a second or by a whole TTL
Tick(d) ==
    /\ resp = NoResp
    /\ ticks < MaxTicks
    /\ now' = now + d
    /\ ticks' = ticks + 1
    /\ UNCHANGED <<files, face_cache, last_cache_update, rows, next_id, req,
                   resp>>
    /\ UNCHANGED svc

\* the count check with only its upper limit
CountOutOfRange_UpperOnly(n) == n > MAX_IMAGES_PER_USER

\* "if len(images) < 3" / "if len(images) > max_images"
CountOutOfRange(n) == n < MIN_IMAGES \/ n > MAX_IMAGES_PER_USER

\* register_face of routes/face.py up to the loop over the images
RegisterStart(u, n) ==
    /\ resp = NoResp
    /\ req.pc = "idle"
    /\ UNCHANGED <<now, ticks, files, face_cache, last_cache_update, rows,
                   next_id>>
    /\ UNCHANGED svc
    /\ IF CountOutOfRange(n)
       THEN /\ resp' = Resp("register", u, 400, "CountOutOfRange")
            /\ req' = req
       ELSE IF find_by_user_id(u, rows) # {}
       THEN /\ resp' = Resp("register", u, 409, "AlreadyRegistered")
            /\ req' = req
       ELSE /\ resp' = NoResp
            /\ req' = [Idle EXCEPT !.pc = "images", !.op = "register",
                                   !.user = u, !.left = n]

\* update_face_images up to the loop over the images: the count checks, then
\* the deletion of every face the user holds
UpdateStart(u, n) ==
    /\ resp = NoResp
    /\ req.pc = "idle"
    /\ UNCHANGED <<now, ticks, face_cache, last_cache_update, next_id>>
    /\ UNCHANGED svc
    /\ IF CountOutOfRange(n)
       THEN /\ resp' = Resp("update", u, 400, "CountOutOfRange")
            /\ UNCHANGED <<files, rows, req>>
       ELSE LET ids == {r.id : r \in find_by_user_id(u, rows)}
                d == delete_all(ids, u, files, rows)
            IN  /\ files' = d.files
                /\ rows' = d.rows
                /\ resp' = NoResp
                /\ req' = [Idle EXCEPT !.pc = "images", !.op = "update",
                                       !.user = u, !.left = n,
                                       !.before = find_by_user_id(u, rows)]

\* the response after the loop: 400 below three successes, else 201 (register)
\* or 200 (update)
BatchResponse(r) ==
    IF r.successful_images < MIN_IMAGES
    THEN [Resp(r.op, r.user, 400, "InsufficientValidImages") EXCEPT
            !.count = r.successful_images, !.upserted = r.upserted,
            !.created = r.created, !.unusable = r.unusable,
            !.before = r.before]
    ELSE [Resp(r.op, r.user, IF r.op = "register" THEN 201 ELSE 200, "") EXCEPT
            !.count = r.successful_images, !.upserted = r.upserted,
            !.created = r.created, !.unusable = r.unusable,
            !.before = r.before]

\* one iteration of the loop over the images, and the response when it was
\* the last one
ProcessImage(img) ==
    /\ resp = NoResp
    /\ req.pc = "images"
    /\ (ExactlyOneFace(img) /\ img.b64 /\ now \notin DOMAIN files)
          => Cardinality(DOMAIN files) < MaxFiles
    /\ \E commit_ok \in CommitOutcomes(img) :
        LET r == register_face(req.user, img, now, face_cache, files, rows,
                               next_id, commit_ok)
            done == IF img.b64 THEN r
                    ELSE [r EXCEPT !.success = FALSE, !.files = files,
                                   !.cache = face_cache, !.rows = rows,
                                   !.next_id = next_id, !.upserted = FALSE,
                                   !.created = {}]
            nreq == [req EXCEPT
                       !.left = req.left - 1,
                       !.successful_images =
                           req.successful_images + (IF done.success THEN 1 ELSE 0),
                       !.upserted = req.upserted \/ done.upserted,
                       !.unusable = req.unusable \/ ~(img.b64 /\ ExactlyOneFace(img)),
                       !.created = req.created \cup done.created]
        IN  /\ files' = done.files
            /\ face_cache' = done.cache
            /\ rows' = done.rows
            /\ next_id' = done.next_id
            /\ IF nreq.left = 0
               THEN /\ req' = Idle
                    /\ resp' = BatchResponse(nreq)
               ELSE /\ req' = nreq
                    /\ resp' = NoResp
    /\ UNCHANGED <<now, ticks, last_cache_update>>
    /\ UNCHANGED svc

\* DELETE /face/images/<image_id>
DeleteFace(u, image_id) ==
    LET d == delete_face_image(image_id, u, files, rows)
    IN  /\ resp = NoResp
        /\ req.pc = "idle"
        /\ files' = d.files
        /\ rows' = d.rows
        /\ resp' = Resp("delete", u,
                        IF d.success THEN 200
                        ELSE IF d.error = "Face image not found" THEN 404
                        ELSE 403,
                        d.error)
        /\ UNCHANGED <<now, ticks, face_cache, last_cache_update, next_id, req>>
        /\ UNCHANGED svc

\* POST /face/recognize: the base64 check, FaceService.recognize_face (cache
\* update when stale, scan, find_by_file_path) and the user lookup
Recognize(img) ==
    /\ resp = NoResp
    /\ req.pc = "idle"
    /\ UNCHANGED <<now, ticks, files, rows, next_id, req>>
    /\ UNCHANGED svc
    /\ IF ~img.b64
       THEN /\ resp' = Resp("recognize", 0, 400, "Invalid image format")
            /\ UNCHANGED <<face_cache, last_cache_update>>
       ELSE IF ~validate_image(img)
       THEN /\ resp' = Resp("recognize", 0, 404, "Face not recognized")
            /\ UNCHANGED <<face_cache, last_cache_update>>
       ELSE \E c \in update_face_cache(now, last_cache_update, face_cache, files) :
              LET m == recognize_face(img, c.cache)
                  found == find_by_file_path(m.file_path, rows)
                  base == [Resp("recognize", 0, 404, "Face not recognized") EXCEPT
                             !.match = m.filename, !.confidence = m.confidence,
                             !.probe = IF HasEncoding(img) THEN img.enc ELSE <<>>]
              IN  /\ face_cache' = c.cache
                  /\ last_cache_update' = c.last
                  /\ IF m.filename = None
                     THEN resp' = base
                     ELSE IF found = {}
                     THEN resp' = base
                     ELSE \E face \in found :
                            resp' = [base EXCEPT !.status = 200, !.error = "",
                                                 !.owner = face.user_id]

\* The dict FaceService.recognize_face returns: its keys, and what the model
\* keeps of the match behind it.  A failure holds success and error, a
\* success holds success, user_id, confidence and filename.
ServiceFailure(error, m, img) ==
    [keys |-> {"success", "error"}, success |-> FALSE, error |-> error,
     user_id |-> 0, match |-> m.filename, confidence |-> m.confidence,
     probe |-> IF HasEncoding(img) THEN img.enc ELSE <<>>]

ServiceSuccess(face, m, img) ==
    [keys |-> {"success", "user_id", "confidence", "filename"},
     success |-> TRUE, error |-> "", user_id |-> face.user_id,
     match |-> m.filename, confidence |-> m.confidence, probe |-> img.enc]

\* FaceService.recognize_face over a cache the service has brought up to date
service_recognize_face(img, cache, rs) ==
    LET m == recognize_face(img, cache)
        found == find_by_file_path(m.file_path, rs)
    IN  IF m.filename = None
        THEN {ServiceFailure("Face not recognized", m, img)}
        ELSE IF found = {}
        THEN {ServiceFailure("Face not found in database", m, img)}
        ELSE {ServiceSuccess(face, m, img) : face \in found}

\* the calls of FaceService.recognize_face from a route: the cache and its
\* time stamp afterwards, and the dict returned
RecognitionOutcomes(img) ==
    IF ~validate_image(img)
    THEN {[cache |-> face_cache, last |-> last_cache_update,
           result |-> ServiceFailure("Face not recognized", NoMatch, img)]}
    ELSE UNION {{[cache |-> c.cache, last |-> c.last, result |-> r] :
                    r \in service_recognize_face(img, c.cache, rows)} :
                c \in update_face_cache(now, last_cache_update, face_cache,
                                        files)}

\* what recognize_face_api and face_login make of the dict: "if not
\* recognition_result" is False for a dict that holds a key, and
\* recognition_result['file_path'] raises KeyError, answered 500, when the
\* key is absent
SurfaceResponse(op, result, not_recognized) ==
    LET base == [Resp(op, 0, not_recognized, "Face not recognized") EXCEPT
                   !.match = result.match, !.confidence = result.confidence,
                   !.probe = result.probe]
    IN  IF result.keys = {} THEN base
        ELSE IF "file_path" \notin result.keys
        THEN [base EXCEPT !.status = 500, !.error = "KeyError"]
        ELSE IF find_by_file_path(result.file_path, rows) = {}
        THEN [base EXCEPT !.error = "Face not registered"]
        ELSE [base EXCEPT !.status = 200, !.error = "",
                          !.owner = result.user_id]

\* the images submitted to /api/face/recognize and /auth/face-login
SurfaceImages == {Image(FALSE, FALSE, 0, 0)} \cup {OneFace(x) : x \in BatchCoords}

\* POST /api/face/recognize
ApiRecognize(img) ==
    /\ resp = NoResp
    /\ req.pc = "idle"
    /\ UNCHANGED <<now, ticks, files, rows, next_id, req>>
    /\ UNCHANGED svc
    /\ IF ~img.b64
       THEN /\ resp' = Resp("api_recognize", 0, 400, "Invalid image format")
            /\ UNCHANGED <<face_cache, last_cache_update>>
       ELSE \E o \in RecognitionOutcomes(img) :
              /\ face_cache' = o.cache
              /\ last_cache_update' = o.last
              /\ resp' = SurfaceResponse("api_recognize", o.result, 404)

\* POST /auth/face-login
FaceLogin(img) ==
    /\ resp = NoResp
    /\ req.pc = "idle"
    /\ UNCHANGED <<now, ticks, files, rows, next_id, req>>
    /\ UNCHANGED svc
    /\ IF ~img.b64
       THEN /\ resp' = Resp("face_login", 0, 400, "Invalid image format")
            /\ UNCHANGED <<face_cache, last_cache_update>>
       ELSE \E o \in RecognitionOutcomes(img) :
              /\ face_cache' = o.cache
              /\ last_cache_update' = o.last
              /\ resp' = SurfaceResponse("face_login", o.result, 401)

\* the pending response reaches the client
Deliver ==
    /\ resp # NoResp
    /\ resp' = NoResp
    /\ UNCHANGED <<now, ticks, files, face_cache, last_cache_update, rows,
                   next_id, req>>
    /\ UNCHANGED svc

Next ==
    \/ \E d \in {1, cache_ttl} : Tick(d)
    \/ \E u \in Users, n \in 0..(MAX_IMAGES_PER_USER + 1) : RegisterStart(u, n)
    \/ \E u \in Users, n \in 0..(MAX_IMAGES_PER_USER + 1) : UpdateStart(u, n)
    \/ \E img \in BatchImages : ProcessImage(img)
    \/ \E u \in Users, id \in 1..next_id : DeleteFace(u, id)
    \/ \E img \in Images : Recognize(img)
    \/ \E img \in SurfaceImages : ApiRecognize(img)
    \/ \E img \in SurfaceImages : FaceLogin(img)
    \/ Deliver

Spec == Init /\ [][Next]_vars

(* ---------------- requests served by concurrent threads ---------------- *)
\* app.run serves each request in a thread of its own: the handlers of
\* routes/face.py interleaved at the granularity of one image of a batch.
\* thr[t] is the batch thread t is serving, in the shape req has above.
Threads == {1, 2}

RowsInit ==
    /\ now = StartTime
    /\ ticks = 0
    /\ files = InitFiles
    /\ \E c \in update_face_cache(StartTime, 0, <<>>, InitFiles) :
          /\ face_cache = c.cache
          /\ last_cache_update = c.last
    /\ rows = InitRows
    /\ next_id = 3
    /\ req = Idle
    /\ resp = NoResp
    /\ self_tolerance = FACE_RECOGNITION_TOLERANCE
    /\ lock = 0
    /\ thr = [t \in Threads |-> Idle]
    /\ snapshot = <<>>

\* register_face of routes/face.py up to the loop, in thread t
ConcRegisterStart(t, u, n) ==
    /\ thr[t].pc = "idle"
    /\ IF CountOutOfRange(n) \/ find_by_user_id(u, rows) # {}
       THEN thr' = thr
       ELSE thr' = [thr EXCEPT ![t] =
                      [Idle EXCEPT !.pc = "images", !.op = "register",
                                   !.user = u, !.left = n]]
    /\ UNCHANGED <<now, ticks, files, face_cache, last_cache_update, rows,
                   next_id, req, resp, self_tolerance, lock, snapshot>>

\* update_face_images up to the loop, in thread t
ConcUpdateStart(t, u, n) ==
    /\ thr[t].pc = "idle"
    /\ IF CountOutOfRange(n)
       THEN UNCHANGED <<files, rows, thr>>
       ELSE LET ids == {r.id : r \in find_by_user_id(u, rows)}
                d == delete_all(ids, u, files, rows)
            IN  /\ files' = d.files
                /\ rows' = d.rows
                /\ thr' = [thr EXCEPT ![t] =
                             [Idle EXCEPT !.pc = "images", !.op = "update",
                                          !.user = u, !.left = n]]
    /\ UNCHANGED <<now, ticks, face_cache, last_cache_update, next_id, req,
                   resp, self_tolerance, lock, snapshot>>

\* one iteration of the loop over the images in thread t; the thread is done
\* after the last one
ConcProcessImage(t, img) ==
    /\ thr[t].pc = "images"
    /\ (ExactlyOneFace(img) /\ img.b64 /\ now \notin DOMAIN files)
          => Cardinality(DOMAIN files) < MaxFiles
    /\ \E commit_ok \in CommitOutcomes(img) :
        LET r == register_face(thr[t].user, img, now, face_cache, files, rows,
                               next_id, commit_ok)
            done == IF img.b64 THEN r
                    ELSE [r EXCEPT !.success = FALSE, !.files = files,
                                   !.cache = face_cache, !.rows = rows,
                                   !.next_id = next_id, !.created = {}]
        IN  /\ files' = done.files
            /\ face_cache' = done.cache
            /\ rows' = done.rows
            /\ next_id' = done.next_id
            /\ thr' = [thr EXCEPT ![t] =
                         IF thr[t].left = 1 THEN Idle
                         ELSE [thr[t] EXCEPT
                                 !.left = thr[t].left - 1,
                                 !.successful_images =
                                     thr[t].successful_images
                                       + (IF done.success THEN 1 ELSE 0),
                                 !.created =
                                     thr[t].created \cup done.created]]
    /\ UNCHANGED <<now, ticks, last_cache_update, req, resp, self_tolerance,
                   lock, snapshot>>

\* DELETE /face/images/<image_id> in thread t
ConcDeleteFace(t, u, image_id) ==
    LET d == delete_face_image(image_id, u, files, rows)
    IN  /\ thr[t].pc = "idle"
        /\ files' = d.files
        /\ rows' = d.rows
        /\ UNCHANGED <<now, ticks, face_cache, last_cache_update, next_id, req,
                       resp, self_tolerance, lock, thr, snapshot>>

RowsNext ==
    \/ \E t \in Threads, u \in Users, n \in 0..(MAX_IMAGES_PER_USER + 1) :
          ConcRegisterStart(t, u, n)
    \/ \E t \in Threads, u \in Users, n \in 0..(MAX_IMAGES_PER_USER + 1) :
          ConcUpdateStart(t, u, n)
    \/ \E t \in Threads, img \in BatchImages : ConcProcessImage(t, img)
    \/ \E t \in Threads, u \in Users, id \in 1..next_id : ConcDeleteFace(t, u, id)

RowsSpec == RowsInit /\ [][RowsNext]_vars

(* --------------------- the matcher as a function ----------------------- *)
\* The comparison loop of recognize_face applied to a cache and a probe drawn
\* from bounded sets, under a configured tolerance: embeddings of two
\* lengths, distances beyond 1.0, tolerances beyond 1.0.
\* a tolerance above 1.0 (FACE_RECOGNITION_TOLERANCE is read from the
\* environment)
HighTolerance == 12
\* number of entries of the caches explored
MaxScanEntries == 2

Tolerances == {FACE_RECOGNITION_TOLERANCE, HighTolerance}

ScanCoords == {0, FACE_RECOGNITION_TOLERANCE, HighTolerance}

VecN(x, n) == [i \in 1..n |-> IF i = 1 THEN x ELSE 0]

ScanEmbeddings ==
    {VecN(x, n) : x \in ScanCoords, n \in {EncodingDim, EncodingDim + 1}}

\* the caches of k entries, named 1..k in iteration order
ScanCaches ==
    UNION {{[i \in 1..k |-> CacheEntry(i, e[i])] :
               e \in [1..k -> ScanEmbeddings]} : k \in 1..MaxScanEntries}

ScanInit ==
    /\ now = StartTime
    /\ ticks = 0
    /\ files = <<>>
    /\ face_cache \in ScanCaches
    /\ last_cache_update = StartTime
    /\ rows = {}
    /\ next_id = 1
    /\ req = Idle
    /\ resp = NoResp
    /\ self_tolerance \in Tolerances
    /\ lock = 0
    /\ thr = <<>>
    /\ snapshot = <<>>

\* lines 180-204 of recognize_face for one probe
ScanApply(probe) ==
    /\ resp = NoResp
    /\ LET m == scan_cache(face_cache, probe)
       IN  resp' = [Resp("scan", 0, 0, "") EXCEPT
                      !.match = m.filename, !.confidence = m.confidence,
                      !.probe = probe]
    /\ UNCHANGED <<now, ticks, files, face_cache, last_cache_update, rows,
                   next_id, req, self_tolerance, lock, thr, snapshot>>

ScanNext == \E probe \in ScanEmbeddings : ScanApply(probe)

ScanSpec == ScanInit /\ [][ScanNext]_vars

(* ------------------ threads inside FaceRecognitionService -------------- *)
\* The calls of recognize_face, detect_faces and get_cache_stats by two
\* threads, followed statement by statement where they touch the cache and
\* its lock.  Here thr[t] is the position of thread t in its call (pc), the
\* probe of its recognize, the time its cache update read (t0), the part of
\* the directory listing its rebuild has still to visit (order), the position
\* of its scan (pos), the size the dict had when its iteration began (len0)
\* the value its call returns (out) and the exception it caught (err).
TIdle ==
    [pc |-> "idle", probe |-> <<>>, t0 |-> 0, order |-> <<>>, pos |-> 0,
     len0 |-> 0, out |-> None, err |-> ""]

\* the images the threads submit
CacheImages == {OneFace(x) : x \in BatchCoords}

CacheInit ==
    /\ now = StartTime
    /\ ticks = 0
    /\ files = InitFiles
    /\ \E c \in update_face_cache(StartTime, 0, <<>>, InitFiles) :
          /\ face_cache = c.cache
          /\ last_cache_update = c.last
          /\ snapshot = c.cache
    /\ rows = InitRows
    /\ next_id = 3
    /\ req = Idle
    /\ resp = NoResp
    /\ self_tolerance = FACE_RECOGNITION_TOLERANCE
    /\ lock = 0
    /\ thr = [t \in Threads |-> TIdle]

RestOfCache == <<rows, next_id, req, resp, self_tolerance, ticks>>

\* recognize_face is entered with an image that passes validate_image
CallRecognize(t, img) ==
    /\ thr[t].pc = "idle"
    /\ validate_image(img) /\ HasEncoding(img)
    /\ thr' = [thr EXCEPT ![t] = [TIdle EXCEPT !.pc = "upd_lock",
                                               !.probe = img.enc]]
    /\ UNCHANGED <<now, files, face_cache, last_cache_update, lock, snapshot>>
    /\ UNCHANGED RestOfCache

\* _update_face_cache: "with self._cache_lock:"
UpdLock(t) ==
    /\ thr[t].pc = "upd_lock"
    /\ lock = 0
    /\ lock' = t
    /\ thr' = [thr EXCEPT ![t].pc = "upd_check"]
    /\ UNCHANGED <<now, files, face_cache, last_cache_update, snapshot>>
    /\ UNCHANGED RestOfCache

\* _update_face_cache: the TTL test; a fresh cache is left alone, a stale
\* one is cleared
UpdCheck(t) ==
    /\ thr[t].pc = "upd_check"
    /\ IF Fresh(now, last_cache_update)
       THEN /\ lock' = 0
            /\ thr' = [thr EXCEPT ![t].pc = "scan_lock"]
            /\ UNCHANGED face_cache
       ELSE /\ face_cache' = <<>>
            /\ thr' = [thr EXCEPT ![t].pc = "upd_list", ![t].t0 = now]
            /\ UNCHANGED lock
    /\ UNCHANGED <<now, files, last_cache_update, snapshot>>
    /\ UNCHANGED RestOfCache

\* _update_face_cache: os.listdir either raises, which the outer except
\* logs, or yields the names in some order
UpdList(t) ==
    /\ thr[t].pc = "upd_list"
    /\ \/ /\ lock' = 0
          /\ thr' = [thr EXCEPT ![t].pc = "scan_lock",
                                ![t].err = "ListingFailed"]
       \/ \E order \in Perms(DOMAIN files) :
             /\ thr' = [thr EXCEPT ![t].pc = "upd_fill", ![t].order = order]
             /\ UNCHANGED lock
    /\ UNCHANGED <<now, files, face_cache, last_cache_update, snapshot>>
    /\ UNCHANGED RestOfCache

\* _update_face_cache: one file of the listing, or the end of the loop,
\* where the time stamp is set and the lock released
UpdFill(t) ==
    /\ thr[t].pc = "upd_fill"
    /\ IF thr[t].order = <<>>
       THEN /\ last_cache_update' = thr[t].t0
            /\ lock' = 0
            /\ snapshot' = face_cache
            /\ thr' = [thr EXCEPT ![t].pc = "scan_lock"]
            /\ UNCHANGED face_cache
       ELSE LET fn == Head(thr[t].order)
            IN  /\ face_cache' =
                      IF fn \in DOMAIN files /\ Cacheable(files[fn])
                      THEN DictSet(face_cache, CacheEntry(fn, files[fn].enc))
                      ELSE face_cache
                /\ thr' = [thr EXCEPT ![t].order = Tail(thr[t].order)]
                /\ UNCHANGED <<last_cache_update, lock, snapshot>>
    /\ UNCHANGED <<now, files>>
    /\ UNCHANGED RestOfCache

\* recognize_face: "with self._cache_lock:" and the start of the iteration
\* over self._face_cache.items()
ScanLock(t) ==
    /\ thr[t].pc = "scan_lock"
    /\ lock = 0
    /\ lock' = t
    /\ thr' = [thr EXCEPT ![t].pc = "scan", ![t].pos = 1,
                          ![t].len0 = Len(face_cache)]
    /\ UNCHANGED <<now, files, face_cache, last_cache_update, snapshot>>
    /\ UNCHANGED RestOfCache

\* recognize_face: one step of the iteration.  A dict whose size changed
\* since the iteration began raises RuntimeError, which the outer except
\* turns into None; otherwise the entry is compared and the first accepted
\* one returned.
ScanStep(t) ==
    /\ thr[t].pc = "scan"
    /\ IF Len(face_cache) # thr[t].len0
       THEN /\ thr' = [thr EXCEPT ![t].pc = "done", ![t].out = None,
                                  ![t].err = "RuntimeError"]
            /\ lock' = 0
       ELSE IF thr[t].pos > Len(face_cache)
       THEN /\ thr' = [thr EXCEPT ![t].pc = "done", ![t].out = None]
            /\ lock' = 0
       ELSE IF compare_faces(face_cache[thr[t].pos].encoding, thr[t].probe,
                             self_tolerance)
       THEN /\ thr' = [thr EXCEPT ![t].pc = "done",
                             ![t].out = face_cache[thr[t].pos].filename]
            /\ lock' = 0
       ELSE /\ thr' = [thr EXCEPT ![t].pos = thr[t].pos + 1]
            /\ UNCHANGED lock
    /\ UNCHANGED <<now, files, face_cache, last_cache_update, snapshot>>
    /\ UNCHANGED RestOfCache

\* detect_faces for an image of exactly one face: the file is written and
\* the entry set in the dict, without the lock
CallDetect(t, img) ==
    /\ thr[t].pc = "idle"
    /\ ExactlyOneFace(img)
    /\ now \notin DOMAIN files => Cardinality(DOMAIN files) < MaxFiles
    /\ LET d == detect_faces(img, now, face_cache, files)
       IN  /\ files' = d.files
           /\ face_cache' = d.cache
           /\ snapshot' = DictSet(snapshot, CacheEntry(now, img.enc))
    /\ UNCHANGED <<now, last_cache_update, lock, thr>>
    /\ UNCHANGED RestOfCache

\* get_cache_stats: "with self._cache_lock:"
StatsLock(t) ==
    /\ thr[t].pc = "idle"
    /\ lock = 0
    /\ lock' = t
    /\ thr' = [thr EXCEPT ![t].pc = "stats"]
    /\ UNCHANGED <<now, files, face_cache, last_cache_update, snapshot>>
    /\ UNCHANGED RestOfCache

\* get_cache_stats: len(self._face_cache) is read and the lock released
StatsRead(t) ==
    /\ thr[t].pc = "stats"
    /\ lock' = 0
    /\ thr' = [thr EXCEPT ![t].pc = "done", ![t].out = Len(face_cache)]
    /\ UNCHANGED <<now, files, face_cache, last_cache_update, snapshot>>
    /\ UNCHANGED RestOfCache

\* the call returns to its caller
Return(t) ==
    /\ thr[t].pc = "done"
    /\ thr' = [thr EXCEPT ![t] = TIdle]
    /\ UNCHANGED <<now, files, face_cache, last_cache_update, lock, snapshot>>
    /\ UNCHANGED RestOfCache

CacheNext ==
    \/ \E d \in {1, cache_ttl} : Tick(d)
    \/ \E t \in Threads, img \in CacheImages : CallRecognize(t, img)
    \/ \E t \in Threads : UpdLock(t)
    \/ \E t \in Threads : UpdCheck(t)
    \/ \E t \in Threads : UpdList(t)
    \/ \E t \in Threads : UpdFill(t)
    \/ \E t \in Threads : ScanLock(t)
    \/ \E t \in Threads : ScanStep(t)
    \/ \E t \in Threads, img \in CacheImages : CallDetect(t, img)
    \/ \E t \in Threads : StatsLock(t)
    \/ \E t \in Threads : StatsRead(t)
    \/ \E t \in Threads : Return(t)

CacheSpec == CacheInit /\ [][CacheNext]_vars

(* ------------------- the rebuild as a function of the directory -------- *)
\* FaceRecognitionService.__init__ over a faces directory that already holds
\* image files: unreadable ones, and readable ones in which the detector
\* finds no face, one face or two faces.
\* number of files of the directories explored
MaxDirFiles == 3

DirImages ==
    {Image(TRUE, FALSE, 0, 0), Image(TRUE, TRUE, 0, 0)}
        \cup {Image(TRUE, TRUE, n, x) : n \in {1, 2}, x \in BatchCoords}

\* the directories of k files, named 1..k
Directories == UNION {[1..k -> DirImages] : k \in 1..MaxDirFiles}

\* the service before its constructor has called _update_face_cache
RebuildInit ==
    /\ now = StartTime
    /\ ticks = 0
    /\ files \in Directories
    /\ face_cache = <<>>
    /\ last_cache_update = 0
    /\ rows = {}
    /\ next_id = 1
    /\ req = Idle
    /\ resp = NoResp
    /\ self_tolerance = FACE_RECOGNITION_TOLERANCE
    /\ lock = 0
    /\ thr = <<>>
    /\ snapshot = <<>>

\* one call of _update_face_cache
RebuildApply ==
    /\ \E c \in update_face_cache(now, last_cache_update, face_cache, files) :
          /\ face_cache' = c.cache
          /\ last_cache_update' = c.last
    /\ UNCHANGED <<now, ticks, files, rows, next_id, req, resp, self_tolerance,
                   lock, thr, snapshot>>

RebuildNext == RebuildApply

RebuildSpec == RebuildInit /\ [][RebuildNext]_vars

(* ------------------------------ claims --------------------------------- *)
\* what Recognize has just answered for a probe in which a face was found
Recognized == resp.op = "recognize" /\ resp.probe # <<>>

\* the exact distance of a cache entry to the probe of the latest recognize
Dist(i) == face_distance(face_cache[i].encoding, resp.probe)

WithinTolerance(i) == Dist(i) >= 0 /\ Dist(i) <= FACE_RECOGNITION_TOLERANCE

\* the cache entry the latest recognize returned
Returned(i) == face_cache[i].filename = resp.match

\* C1: recognize returns the cache entry at minimum distance among all the
\* entries within tolerance, never an entry farther away than another
\* matching one.
C1_MinimumDistance ==
    Recognized =>
        /\ (\E i \in 1..Len(face_cache) : WithinTolerance(i)) => resp.match # None
        /\ \A i, j \in 1..Len(face_cache) :
              (Returned(i) /\ WithinTolerance(j)) => Dist(i) <= Dist(j)

\* a recognize that found a match while a strictly closer entry existed
C1_Witness ==
    /\ Recognized
    /\ \E i, j \in 1..Len(face_cache) :
          Returned(i) /\ WithinTolerance(j) /\ Dist(j) < Dist(i)

\* the cache enumerated in another order
Permute(cache, q) == [i \in 1..Len(cache) |-> cache[q[i]]]

\* C2: the identifier recognize returns is the same for every iteration order
\* of the same cache entries, and among the entries at equal distance it is
\* the lowest identifier.
C2_OrderIndependent ==
    Recognized =>
        /\ \A q \in Perms(1..Len(face_cache)) :
              scan_cache(Permute(face_cache, q), resp.probe).filename = resp.match
        /\ \A i, j \in 1..Len(face_cache) :
              (Returned(i) /\ WithinTolerance(j) /\ Dist(j) = Dist(i))
                  => face_cache[i].filename <= face_cache[j].filename

\* a recognize over a cache holding two entries within tolerance
C2_Witness ==
    /\ Recognized
    /\ \E i, j \in 1..Len(face_cache) :
          i # j /\ WithinTolerance(i) /\ WithinTolerance(j)

\* C3: a register or update batch that ends with fewer than MIN_IMAGES
\* successes leaves no row it created in the table, answers
\* InsufficientValidImages (400), and does not leave its owner with between 1
\* and MIN_IMAGES - 1 rows.
BatchFailed ==
    /\ resp.op \in {"register", "update"}
    /\ resp.error \notin {"CountOutOfRange", "AlreadyRegistered"}
    /\ resp.count < MIN_IMAGES

C3_NoPartialPersistence ==
    BatchFailed =>
        /\ resp.status = 400 /\ resp.error = "InsufficientValidImages"
        /\ \A r \in rows : r.id \notin resp.created
        /\ Cardinality(find_by_user_id(resp.user, rows)) \notin 1..(MIN_IMAGES - 1)

\* a failed batch that did hold an image of exactly one face
C3_Witness == BatchFailed /\ resp.upserted

\* C4: a batch that fails for insufficient valid images has written no cache
\* entry.
C4_NoUpsertOnFailure ==
    (resp.error = "InsufficientValidImages") => ~resp.upserted

\* C4, second half: a step of a batch inserts the cache entry of an image
\* only when the image's row is in the table.
C4_UpsertAfterPersist ==
    [][(req.pc = "images" /\ face_cache' # face_cache)
          => \E r \in rows' : r.file_path = RowPath(now)]_vars

\* C5: a fresh registration whose images all hold exactly one face succeeds
\* (201) with as many successes as rows persisted for the owner, all of them
\* created by the batch.
C5_ValidBatchSucceeds ==
    (/\ resp.op = "register"
     /\ resp.error \notin {"CountOutOfRange", "AlreadyRegistered"}
     /\ ~resp.unusable)
        => /\ resp.status = 201
           /\ resp.count >= MIN_IMAGES
           /\ Cardinality(find_by_user_id(resp.user, rows)) = resp.count
           /\ {r.id : r \in find_by_user_id(resp.user, rows)} = resp.created

\* C6: recognize finds a match exactly when some cache entry lies at a
\* distance of at most the tolerance, the tolerance itself included, and the
\* entry it returns is never farther than the tolerance.
C6_InclusiveThreshold ==
    Recognized =>
        /\ (resp.match # None) <=> (\E i \in 1..Len(face_cache) : WithinTolerance(i))
        /\ \A i \in 1..Len(face_cache) : Returned(i) => WithinTolerance(i)
        /\ resp.match # None
              => One - resp.confidence <= FACE_RECOGNITION_TOLERANCE

\* a match returned at a distance of exactly the tolerance
C6_Witness ==
    /\ Recognized
    /\ resp.match # None
    /\ One - resp.confidence = FACE_RECOGNITION_TOLERANCE

\* C7: a register or update call with fewer than MIN_IMAGES or more than
\* MAX_IMAGES_PER_USER images is answered CountOutOfRange and changes neither
\* the files, the cache, the rows nor the request state.
C7_CountRejectedBeforeProcessing ==
    [][\A u \in Users, n \in 0..(MAX_IMAGES_PER_USER + 1) :
          ((RegisterStart(u, n) \/ UpdateStart(u, n))
              /\ (n < MIN_IMAGES \/ n > MAX_IMAGES_PER_USER))
          => /\ resp'.status = 400 /\ resp'.error = "CountOutOfRange"
             /\ UNCHANGED <<files, face_cache, last_cache_update, rows,
                            next_id, req>>]_vars

\* an update rejected for its count while its owner holds faces
C7_Witness ==
    /\ resp.op = "update" /\ resp.error = "CountOutOfRange"
    /\ find_by_user_id(resp.user, rows) # {}

C9_RowStored == rows \ InitRows # {}

\* C10: every owner who holds a row holds exactly one primary row.
C10_OnePrimary ==
    \A u \in Users :
        find_by_user_id(u, rows) # {}
            => Cardinality({r \in find_by_user_id(u, rows) : r.is_primary}) = 1

\* C11: whatever register, update and delete requests do, one after another
\* or interleaved in two threads, no owner holds more than
\* MAX_IMAGES_PER_USER rows.
C11_AtMostMaxRows ==
    \A u \in Users :
        Cardinality({r \in rows : r.user_id = u}) \in 0..MAX_IMAGES_PER_USER

\* a register and an update batch of the same owner under way at once, both
\* past their first image, after a delete has removed a row
C11_Witness ==
    /\ \E t1, t2 \in Threads :
          /\ thr[t1].pc = "images" /\ thr[t1].op = "register"
          /\ thr[t2].pc = "images" /\ thr[t2].op = "update"
          /\ thr[t1].user = thr[t2].user
          /\ thr[t1].left < MIN_IMAGES /\ thr[t2].left < MIN_IMAGES
    /\ rows # InitRows /\ rows # {}

C13_CacheOnlyPersisted ==
    \A i \in 1..Len(face_cache) :
        \E r \in InitRows \cup rows :
            r.file_path = RowPath(face_cache[i].filename)

\* the status with which a recognition surface answers a face it did not
\* recognize
NotRecognizedStatus(op) == IF op = "face_login" THEN 401 ELSE 404

\* C14: when the matcher returns an entry for which the table holds no row,
\* every recognition surface answers as it does for a face it did not
\* recognize, and never with a server error.
C14_StaleMatchNotRecognized ==
    (/\ resp.op \in {"recognize", "api_recognize", "face_login"}
     /\ resp.match # None
     /\ find_by_file_path(CachePath(resp.match), rows) = {}
     /\ find_by_file_path(RowPath(resp.match), rows) = {})
        => /\ resp.status # 500
           /\ resp.status = NotRecognizedStatus(resp.op)
           /\ resp.error = "Face not recognized"

\* the position of the entry a scan returned, past the last entry when it
\* returned none
ReturnedAt ==
    IF resp.match = None THEN Len(face_cache) + 1
    ELSE CHOOSE i \in 1..Len(face_cache) : face_cache[i].filename = resp.match

C16_ConfidenceClamped ==
    (/\ resp.op = "scan"
     /\ resp.match # None
     /\ \A i \in 1..Len(face_cache) :
           Len(face_cache[i].encoding) = Len(resp.probe))
        => /\ resp.confidence >= 0
           /\ resp.confidence <= One
           /\ LET d == face_distance(face_cache[ReturnedAt].encoding, resp.probe)
              IN  resp.confidence = IF One - d < 0 THEN 0 ELSE One - d

\* C17: a thread that reads the cache (the scan of recognize_face, the count
\* of get_cache_stats) reads a whole one: the content as it stood before a
\* rebuild or as a completed rebuild left it, with the upserts made since,
\* never a cleared or partly refilled collection.
C17_ReadersSeeWholeCache ==
    \A t \in Threads :
        thr[t].pc \in {"scan", "stats"} => face_cache = snapshot

\* C18: a refresh whose directory listing fails leaves the cache as it was
\* before the attempt and lets the recognize that ran it go on.
C18_FailedListingKeepsCache ==
    [][\A t \in Threads :
          (thr[t].pc = "upd_list" /\ thr'[t].err = "ListingFailed")
              => /\ face_cache' = snapshot
                 /\ thr'[t].pc = "scan_lock"]_vars

\* C19: the cache changes only in a step of the thread that holds the lock.
C19_MutationsUnderLock ==
    [][face_cache' # face_cache
          => /\ lock # 0
             /\ thr'[lock] # thr[lock]]_vars

\* a scan whose dict changed size while it iterated
C19_Witness ==
    \E t \in Threads :
        thr[t].pc = "scan" /\ lock = t /\ Len(face_cache) # thr[t].len0

\* C20: the lock is held only to take a snapshot or to publish a built
\* replacement: not while the directory is listed or its files encoded, and
\* not while the candidates are compared.
C20_LockOnlyForSwap ==
    \A t \in Threads :
        lock = t => thr[t].pc \notin {"upd_list", "upd_fill", "scan"}

\* the entries derived from the stored images of exactly one face
DerivedEntries(fs) ==
    {CacheEntry(fn, fs[fn].enc) :
        fn \in {f \in DOMAIN fs : fs[f].fmt /\ fs[f].faces = 1}}

C22_OnlySingleFaceImages ==
    last_cache_update = now
        => /\ \A i \in 1..Len(face_cache) :
                 files[face_cache[i].filename].faces = 1
           /\ \A fn \in DOMAIN files :
                 (files[fn].fmt /\ files[fn].faces = 1)
                    => \E i \in 1..Len(face_cache) :
                          face_cache[i].filename = fn

\* the rows of the stored image the latest answer matched
MatchedRows == find_by_file_path(RowPath(resp.match), rows)

\* C24: /auth/face-login establishes a session (answer 200, the owner in
\* the session) only for the owner of the matched face, never for a probe
\* that is not recognized or whose matched face has no row; and a probe
\* that matches an enrolled face does establish one.
C24_SessionForMatchedOwner ==
    resp.op = "face_login" =>
        /\ resp.owner # 0 =>
              /\ resp.status = 200
              /\ resp.match # None
              /\ \E r \in MatchedRows : r.user_id = resp.owner
        /\ (resp.match = None \/ MatchedRows = {}) => resp.owner = 0
        /\ (resp.match # None /\ MatchedRows # {}) =>
              /\ resp.status = 200
              /\ \E r \in MatchedRows : r.user_id = resp.owner

\* C25: DELETE /face/images/<id> deletes the row only when it exists and
\* belongs to the caller; the id of another account's face is answered
\* "Access denied" and an unknown id "Face image not found", and both leave
\* the rows, the image files and the cache as they were.
C25_DeleteOnlyOwned ==
    [][\A u \in Users, id \in 1..next_id :
          DeleteFace(u, id) =>
             LET known == {r \in rows : r.id = id}
             IN  /\ known = {} =>
                       /\ resp'.status = 404
                       /\ resp'.error = "Face image not found"
                       /\ UNCHANGED <<rows, files, face_cache>>
                 /\ (known # {} /\ \A r \in known : r.user_id # u) =>
                       /\ resp'.status = 403
                       /\ resp'.error = "Access denied"
                       /\ UNCHANGED <<rows, files, face_cache>>
                 /\ (\E r \in known : r.user_id = u) =>
                       /\ resp'.status = 200
                       /\ rows' = rows \ known]_vars

\* account 2 has asked to delete a face of account 1, which is still there
C25_Witness ==
    /\ resp.op = "delete"
    /\ resp.user = 2
    /\ resp.status = 403
    /\ \E r \in rows : r.user_id = 1

\* C26: every image detect_faces stores gets a file name no stored image
\* has yet, images of the same batch and the same second included, so no
\* call overwrites the file or the cache entry of another image.
C26_DistinctFilenames ==
    [][\A img \in BatchImages :
          (ProcessImage(img) /\ img.b64 /\ ExactlyOneFace(img))
             => /\ now \notin DOMAIN files
                /\ \A i \in 1..Len(face_cache) : face_cache[i].filename # now]_vars

\* C27: the path stored in the row of an image equals the path stored in
\* the cache entry of the same image, so that find_by_file_path on the
\* entry's path finds that row.
C27_SameSourceHandle ==
    \A r \in rows : \A i \in 1..Len(face_cache) :
        r.file_path[2] = face_cache[i].filename
            => /\ r.file_path = face_cache[i].file_path
               /\ r \in find_by_file_path(face_cache[i].file_path, rows)

\* the cache entry at position i belongs to an image whose row still exists
LiveEntry(i) == find_by_file_path(RowPath(face_cache[i].filename), rows) # {}

\* C28: an entry whose row was deleted never hides a live face: when the
\* probe is within tolerance of some entry whose row still exists,
\* /face/recognize answers with the owner of such a row.
C28_StaleNeverHidesLive ==
    (Recognized /\ \E i \in 1..Len(face_cache) : WithinTolerance(i) /\ LiveEntry(i))
        => /\ resp.match # None
           /\ LiveEntry(ReturnedAt)
           /\ resp.status = 200
           /\ \E i \in 1..Len(face_cache) :
                 /\ WithinTolerance(i)
                 /\ \E r \in find_by_file_path(RowPath(face_cache[i].filename), rows) :
                       r.user_id = resp.owner

\* C29: an update that ends in an error because fewer than three images
\* were processed successfully leaves the rows of the user as they were
\* before the update.
C29_FailedReplaceKeepsFaces ==
    (resp.op = "update" /\ resp.error = "InsufficientValidImages")
        => find_by_user_id(resp.user, rows) = resp.before

\* C30: when two registrations of the same account, which holds no face,
\* run concurrently, at most one of them persists faces: a registration
\* creates a row only when every row the account holds was created by the
\* same batch, so the account is never left with rows of both.
C30_AtMostOneBatchPersists ==
    [][\A t \in Threads :
          (/\ thr[t].pc = "images"
           /\ thr[t].op = "register"
           /\ thr'[t] # thr[t]
           /\ rows' # rows)
             => {r.id : r \in find_by_user_id(thr[t].user, rows)}
                    \subseteq thr[t].created]_vars

\* both threads are in the loop of a registration of account 2, each past
\* its first image, one of which was stored by detect_faces
C30_Witness ==
    /\ \A t \in Threads :
          /\ thr[t].pc = "images"
          /\ thr[t].op = "register"
          /\ thr[t].user = 2
          /\ thr[t].left < MIN_IMAGES
    /\ now \in DOMAIN files
    /\ find_by_user_id(2, rows) = {}

====
